---- MODULE Spec2Model ----
(***************************************************************************)
(* libdonow: the todo.txt line parser (src/src/parser.rs) and the          *)
(* collection of parsed lines, TodoFile (src/src/file.rs).                 *)
(*                                                                         *)
(* A line is a sequence of characters, each character a one-character      *)
(* string.  The regular expressions of the parser are modelled by what     *)
(* they match, character by character; dates are parsed into (y, m, d)     *)
(* and formatted back into digits.                                         *)
(***************************************************************************)
EXTENDS Integers, Sequences, FiniteSets, TLC

VARIABLES
    toks,      \* the tokens the input line is built from (input structure)
    line,      \* the input line: the tokens joined by single spaces
    pc,        \* position of the caller: off, new, extracted, parsed, failed,
               \* panicked, rendered, reparsed, smart, filled
    t,         \* the Todo being worked on
    status,    \* outcome of Todo::parse(line): None, Ok, NoTitle, Panic
    ext,       \* results of the single-field extractors on Todo::new(line)
    text,      \* t.to_string()
    rt,        \* the Todo of Todo::parse(text)
    rstatus,   \* outcome of Todo::parse(text)
    smart,     \* Todo::smart_parse(line): the date of the call, outcome, Todo
    filled,    \* t.fill(): its outcome and t after the call
    fcontent,  \* TodoFile.content: the text the collection is loaded from
    todos,     \* TodoFile.todos
    fpc,       \* position of the caller of TodoFile: off, created, loaded,
               \* panicked, listed, rearranged, due
    hist,      \* the operations applied to the collection since it was
               \* loaded, each with the todos it was applied to
    res        \* the value returned by the last query on the collection

parserVars == <<toks, line, pc, t, status, ext, text, rt, rstatus, smart, filled>>

fileVars == <<fcontent, todos, fpc, hist, res>>

vars == <<parserVars, fileVars>>

----------------------------------------------------------------------------
(* Characters and character classes (\w, \d, \s of the regex crate,        *)
(* restricted to ASCII).                                                   *)

DigitSeq == <<"0", "1", "2", "3", "4", "5", "6", "7", "8", "9">>

DigitChars == {DigitSeq[i] : i \in 1..10}

LetterChars ==
    {"a", "b", "c", "d", "e", "f", "g", "h", "i", "j", "k", "l", "m",
     "n", "o", "p", "q", "r", "s", "t", "u", "v", "w", "x", "y", "z",
     "A", "B", "C", "D", "E", "F", "G", "H", "I", "J", "K", "L", "M",
     "N", "O", "P", "Q", "R", "S", "T", "U", "V", "W", "X", "Y", "Z"}

IsDigit(c) == c \in DigitChars

IsWord(c) == c \in LetterChars \cup DigitChars \cup {"_"}

IsSpace(c) == c \in {" ", "\t"}

DigitVal(c) == CHOOSE n \in 0..9 : DigitSeq[n + 1] = c

None == <<>>

Some(v) == <<v>>

----------------------------------------------------------------------------
(* str helpers of the standard library.                                    *)

starts_with(s, c) == Len(s) >= 1 /\ s[1] = c

RECURSIVE trim_start(_)
trim_start(s) ==
    IF s # <<>> /\ IsSpace(s[1]) THEN trim_start(Tail(s)) ELSE s

RECURSIVE trim_end(_)
trim_end(s) ==
    IF s # <<>> /\ IsSpace(s[Len(s)])
    THEN trim_end(SubSeq(s, 1, Len(s) - 1))
    ELSE s

trim(s) == trim_end(trim_start(s))

\* s[from..] of Rust: the characters from index `from` (1-based) on.
SliceFrom(s, from) == SubSeq(s, from, Len(s))

\* str::split_once(':'): the parts before and after the first ':', or None.
split_once(s) ==
    IF \E i \in 1..Len(s) : s[i] = ":"
    THEN LET i == CHOOSE k \in 1..Len(s) :
                      s[k] = ":" /\ \A j \in 1..(k - 1) : s[j] # ":"
         IN  Some(<<SubSeq(s, 1, i - 1), SliceFrom(s, i + 1)>>)
    ELSE None

----------------------------------------------------------------------------
(* The regular expressions.  Each <name>(s, i) is the index of the last    *)
(* character of the match that starts at index i of s, or 0 when the       *)
(* expression does not match there.                                        *)

RECURSIVE WordRunEnd(_, _)
\* \w+ from i, greedy: the last index of the run of word characters
\* (i - 1 when s[i] is not a word character).
WordRunEnd(s, i) ==
    IF i <= Len(s) /\ IsWord(s[i]) THEN WordRunEnd(s, i + 1) ELSE i - 1

RECURSIVE NonSpaceRunEnd(_, _)
\* \S+ from i, greedy.
NonSpaceRunEnd(s, i) ==
    IF i <= Len(s) /\ ~IsSpace(s[i]) THEN NonSpaceRunEnd(s, i + 1) ELSE i - 1

\* \d{4}-\d{2}-\d{2}
DateShapeAt(s, i) ==
    /\ i >= 1
    /\ i + 9 <= Len(s)
    /\ \A k \in {0, 1, 2, 3, 5, 6, 8, 9} : IsDigit(s[i + k])
    /\ s[i + 4] = "-"
    /\ s[i + 7] = "-"

\* "\\+(\\w+)"
project_re(s, i) ==
    IF i < Len(s) /\ s[i] = "+" /\ IsWord(s[i + 1])
    THEN WordRunEnd(s, i + 1)
    ELSE 0

\* "\\@(\\w+)"
context_re(s, i) ==
    IF i < Len(s) /\ s[i] = "@" /\ IsWord(s[i + 1])
    THEN WordRunEnd(s, i + 1)
    ELSE 0

\* "(\\w+):(\\S+)": the greedy \w+ must be followed by ':' (a shorter run is
\* followed by a word character, so backtracking finds nothing more).
TagRest(s, e) ==
    IF e + 1 < Len(s) /\ s[e + 1] = ":" /\ ~IsSpace(s[e + 2])
    THEN NonSpaceRunEnd(s, e + 2)
    ELSE 0

tags_re(s, i) ==
    IF i <= Len(s) /\ IsWord(s[i]) THEN TagRest(s, WordRunEnd(s, i)) ELSE 0

\* "\\((\\w+)\\)"
ClosingParen(s, e) == IF e < Len(s) /\ s[e + 1] = ")" THEN e + 1 ELSE 0

p_re(s, i) ==
    IF i < Len(s) /\ s[i] = "(" /\ IsWord(s[i + 1])
    THEN ClosingParen(s, WordRunEnd(s, i + 1))
    ELSE 0

\* "(?<!:)(\\d{4}-\\d{2}-\\d{2})"
date_re(s, i) ==
    IF DateShapeAt(s, i) /\ (i = 1 \/ s[i - 1] # ":") THEN i + 9 ELSE 0

\* "due:(\\d{4}-\\d{2}-\\d{2})"
due_re(s, i) ==
    IF /\ i + 3 <= Len(s)
       /\ SubSeq(s, i, i + 3) = <<"d", "u", "e", ":">>
       /\ DateShapeAt(s, i + 4)
    THEN i + 13
    ELSE 0

\* "(\\+(\\w+)|\\@(\\w+)|\\((\\w+)\\)|\\w+:(\\S+)|(?<!:)\\d{4}-\\d{2}-\\d{2})"
\* The alternatives are tried in order; the first that matches at i wins.
title_re(s, i) ==
    IF project_re(s, i) > 0 THEN project_re(s, i)
    ELSE IF context_re(s, i) > 0 THEN context_re(s, i)
    ELSE IF p_re(s, i) > 0 THEN p_re(s, i)
    ELSE IF tags_re(s, i) > 0 THEN tags_re(s, i)
    ELSE date_re(s, i)

\* Regex::new(re): the expression of that name.
MatchAt(re, s, i) ==
    CASE re = "project_re" -> project_re(s, i)
      [] re = "context_re" -> context_re(s, i)
      [] re = "tags_re"    -> tags_re(s, i)
      [] re = "p_re"       -> p_re(s, i)
      [] re = "date_re"    -> date_re(s, i)
      [] re = "due_re"     -> due_re(s, i)
      [] re = "title_re"   -> title_re(s, i)

RECURSIVE find(_, _, _)
\* Regex::find from index i on: <<start, end>> of the leftmost match of the
\* expression re, or <<0, 0>>.
find(re, s, i) ==
    IF i > Len(s) THEN <<0, 0>>
    ELSE IF MatchAt(re, s, i) > 0 THEN <<i, MatchAt(re, s, i)>>
    ELSE find(re, s, i + 1)

RECURSIVE MatchesFrom(_, _, _)
\* The non-overlapping matches from the match m on, left to right.
MatchesFrom(re, s, m) ==
    IF m[1] = 0 THEN <<>>
    ELSE <<m>> \o MatchesFrom(re, s, find(re, s, m[2] + 1))

\* Regex::find_iter
find_iter(re, s) == MatchesFrom(re, s, find(re, s, 1))

RECURSIVE Without(_, _, _)
\* s from index i on, without the matches ms.
Without(s, i, ms) ==
    IF ms = <<>> THEN SliceFrom(s, i)
    ELSE SubSeq(s, i, Head(ms)[1] - 1) \o Without(s, Head(ms)[2] + 1, Tail(ms))

\* Regex::replace_all(s, ""): s without its matches.
replace_all(re, s) == Without(s, 1, find_iter(re, s))

\* Match::as_str
as_str(s, m) == SubSeq(s, m[1], m[2])

----------------------------------------------------------------------------
(* chrono::NaiveDate: a date is <<year, month, day>>.                      *)

IsLeap(y) == (y % 4 = 0 /\ y % 100 # 0) \/ y % 400 = 0

DaysIn(y, m) ==
    IF m = 2 THEN (IF IsLeap(y) THEN 29 ELSE 28)
    ELSE IF m \in {4, 6, 9, 11} THEN 30
    ELSE 31

RECURSIVE NumOf(_)
\* The number a sequence of digit characters writes.
NumOf(ds) ==
    IF ds = <<>> THEN 0
    ELSE 10 * NumOf(SubSeq(ds, 1, Len(ds) - 1)) + DigitVal(ds[Len(ds)])

RECURSIVE Pad(_, _)
\* format!("{:0w$}", n)
Pad(n, w) ==
    IF w = 0 THEN <<>> ELSE Pad(n \div 10, w - 1) \o <<DigitSeq[(n % 10) + 1]>>

\* NaiveDate::parse_from_str(s, "%Y-%m-%d") on a match of \d{4}-\d{2}-\d{2}:
\* Some(date), or None for Err (not a calendar date).
parse_from_str(s) ==
    LET y == NumOf(SubSeq(s, 1, 4))
        m == NumOf(SubSeq(s, 6, 7))
        d == NumOf(SubSeq(s, 9, 10))
    IN  IF m >= 1 /\ m <= 12 /\ d >= 1 /\ d <= DaysIn(y, m)
        THEN Some(<<y, m, d>>)
        ELSE None

\* Display of NaiveDate: %Y-%m-%d
fmt_date(d) == Pad(d[1], 4) \o <<"-">> \o Pad(d[2], 2) \o <<"-">> \o Pad(d[3], 2)

----------------------------------------------------------------------------
(* struct Todo and its field extractors; `c` is self.content.              *)

\* Todo::new
new(s) ==
    [title      |-> <<>>,
     completed  |-> FALSE,
     priority   |-> None,
     completion |-> None,
     creation   |-> None,
     project    |-> None,
     context    |-> None,
     others     |-> <<>>,
     content    |-> s]

\* The text of an optional match without its first character.
Captured(c, m) == IF m[1] = 0 THEN None ELSE Some(SliceFrom(as_str(c, m), 2))

\* Mutant of parse_project: the last +word of the line instead of the first.
parse_project_last(c) ==
    Captured(c, IF find_iter("project_re", c) = <<>> THEN <<0, 0>>
                ELSE find_iter("project_re", c)[Len(find_iter("project_re", c))])

parse_project(c) == Captured(c, find("project_re", c, 1))

parse_context(c) == Captured(c, find("context_re", c, 1))

\* Mutant of insert: a key already present keeps its first value.
insert_if_absent(map, kv) ==
    IF kv = None THEN map ELSE map @@ (kv[1][1] :> kv[1][2])

\* map.insert(k, v) of HashMap: the value of a key already present is
\* replaced.
insert(map, kv) == IF kv = None THEN map ELSE (kv[1][1] :> kv[1][2]) @@ map

RECURSIVE InsertAll(_, _, _)
\* The for_each of parse_tags: every match is split at its first ':' and
\* inserted, in order.
InsertAll(c, ms, map) ==
    IF ms = <<>> THEN map
    ELSE InsertAll(c, Tail(ms), insert(map, split_once(as_str(c, Head(ms)))))

parse_tags(c) == InsertAll(c, find_iter("tags_re", c), <<>>)

PriorityOf(c, m) ==
    IF m[1] = 0 THEN None ELSE Some(SubSeq(c, m[1] + 1, m[2] - 1))

parse_priority(c) == PriorityOf(c, find("p_re", c, 1))

\* The replace_all of parse_title: the content without its recognised tokens.
strip_tokens(c) == replace_all("title_re", c)

\* Ok(title), or Err(TodoErr::NoTitle) when nothing but whitespace is left:
\* [ok |-> TRUE, val |-> title] or [ok |-> FALSE].
TitleResult(title) ==
    IF title = <<>>
    THEN [ok |-> FALSE, val |-> <<>>]
    ELSE [ok |-> TRUE, val |-> title]

parse_title(c) ==
    TitleResult(trim(strip_tokens(IF starts_with(c, "x")
                                  THEN trim(SliceFrom(c, 2))
                                  ELSE c)))

\* A date of parse_dates: the next match of the iterator read as a calendar
\* date.  [seen, date]: date is None although seen when `expect` panics.
NextDate(c, m) ==
    IF m[1] = 0 THEN [seen |-> FALSE, date |-> None, end |-> 0]
    ELSE [seen |-> TRUE, date |-> parse_from_str(as_str(c, m)), end |-> m[2]]

DatesResult(d1, d2) ==
    IF (d1.seen /\ d1.date = None) \/ (d2.seen /\ d2.date = None)
    THEN [panic |-> TRUE, creation |-> None, completion |-> None]
    ELSE [panic |-> FALSE, creation |-> d1.date, completion |-> d2.date]

SecondDate(c, d1) ==
    DatesResult(d1, IF d1.seen THEN NextDate(c, find("date_re", c, d1.end + 1))
                    ELSE d1)

\* parse_dates: the first two matches of the iterator; `expect` panics on
\* a match that is not a calendar date.  Matches after the second are never
\* asked for.
parse_dates(c) == SecondDate(c, NextDate(c, find("date_re", c, 1)))

\* The Result of Todo::parse once the fields are extracted, in the order of
\* the `?`s: [status, todo]; status is Ok, NoTitle (Err(TodoErr::NoTitle))
\* or Panic (the thread panicked, nothing is returned).
Assemble(s, completed, content, title, dates) ==
    IF ~title.ok THEN [status |-> "NoTitle", todo |-> new(s)]
    ELSE IF dates.panic THEN [status |-> "Panic", todo |-> new(s)]
    ELSE [status |-> "Ok",
          todo   |-> [title      |-> title.val,
                      completed  |-> completed,
                      priority   |-> parse_priority(content),
                      completion |-> dates.completion,
                      creation   |-> dates.creation,
                      project    |-> parse_project(content),
                      context    |-> parse_context(content),
                      others     |-> parse_tags(content),
                      content    |-> content]]

ParseContent(s, completed, content) ==
    Assemble(s, completed, content, parse_title(content), parse_dates(content))

\* The content Todo::parse works on: the line, without its first character
\* and trimmed when that character is 'x'.
content_of(s) == IF starts_with(s, "x") THEN trim(SliceFrom(s, 2)) ELSE s

\* Todo::parse.  The patterns are fixed and compile, so no extractor returns
\* Err(RegexParseErr); the `?`s can only pass on NoTitle.
parse(s) == ParseContent(s, starts_with(s, "x"), content_of(s))

\* The value of parse_due once the pattern was searched: [panic, date].  The
\* text after "due:" is read as a calendar date; `expect` panics when it is
\* none.
DueResult(found, date) ==
    IF ~found THEN [panic |-> FALSE, date |-> None]
    ELSE IF date = None THEN [panic |-> TRUE, date |-> None]
    ELSE [panic |-> FALSE, date |-> date]

DueOf(c, m) ==
    DueResult(m[1] # 0,
              IF m[1] = 0 THEN None
              ELSE parse_from_str(SliceFrom(as_str(c, m), 5)))

\* Todo::parse_due: the leftmost match of "due:(\\d{4}-\\d{2}-\\d{2})".
parse_due(c) == DueOf(c, find("due_re", c, 1))

\* The two defaults of smart_parse, applied to the Result of parse; `?`
\* passes an error on (and a panic is a panic).
SmartDefaults(r, now) ==
    IF r.status # "Ok" THEN r
    ELSE [status |-> "Ok",
          todo   |-> [r.todo EXCEPT
                        !.creation = IF @ = None THEN Some(now) ELSE @,
                        !.priority = IF @ = None THEN Some(<<"D">>) ELSE @]]

\* Mutant of smart_parse: the priority is set to "D" whatever the line says.
SmartOverwrite(r, now) ==
    IF r.status # "Ok" THEN r
    ELSE [status |-> "Ok",
          todo   |-> [r.todo EXCEPT
                        !.creation = IF @ = None THEN Some(now) ELSE @,
                        !.priority = Some(<<"D">>)]]

smart_parse_overwrite(s, now) == SmartOverwrite(parse(s), now)

\* Todo::smart_parse; `now` is chrono::Local::now().naive_local().date().
smart_parse(s, now) == SmartDefaults(parse(s), now)

\* The outcome of fill once its content was parsed, and self after the call:
\* `*self = t` on Ok, self untouched when `?` returns the error.
FillResult(self, r) ==
    IF r.status = "Ok" THEN [status |-> "Ok", todo |-> r.todo]
    ELSE [status |-> r.status, todo |-> self]

\* Todo::fill
fill(self) == FillResult(self, parse(self.content))

\* Mutant of toggle_status: the record is marked completed.
toggle_status_set(self) == [self EXCEPT !.completed = TRUE]

\* Todo::toggle_status
toggle_status(self) == [self EXCEPT !.completed = ~@]

RECURSIVE fmt_tags(_, _)
\* The for loop of Display over self.others, visited in the order `ks`.
fmt_tags(map, ks) ==
    IF ks = <<>> THEN <<>>
    ELSE <<" ">> \o Head(ks) \o <<":">> \o map[Head(ks)] \o fmt_tags(map, Tail(ks))

\* Mutant of Display: the creation date written before the completion date.
fmt_creation_first(r, ks) ==
    (IF r.completed THEN <<"x">> ELSE <<>>)
    \o (IF r.priority # None THEN <<" ", "(">> \o r.priority[1] \o <<")">> ELSE <<>>)
    \o (IF r.creation # None THEN <<" ">> \o fmt_date(r.creation[1]) ELSE <<>>)
    \o (IF r.completion # None THEN <<" ">> \o fmt_date(r.completion[1]) ELSE <<>>)
    \o <<" ">> \o r.title
    \o (IF r.project # None THEN <<" ", "+">> \o r.project[1] ELSE <<>>)
    \o (IF r.context # None THEN <<" ", "@">> \o r.context[1] ELSE <<>>)
    \o fmt_tags(r.others, ks)

\* impl Display for Todo; `ks` is the order in which the HashMap yields its
\* keys.
fmt(r, ks) ==
    (IF r.completed THEN <<"x">> ELSE <<>>)
    \o (IF r.priority # None THEN <<" ", "(">> \o r.priority[1] \o <<")">> ELSE <<>>)
    \o (IF r.completion # None THEN <<" ">> \o fmt_date(r.completion[1]) ELSE <<>>)
    \o (IF r.creation # None THEN <<" ">> \o fmt_date(r.creation[1]) ELSE <<>>)
    \o <<" ">> \o r.title
    \o (IF r.project # None THEN <<" ", "+">> \o r.project[1] ELSE <<>>)
    \o (IF r.context # None THEN <<" ", "@">> \o r.context[1] ELSE <<>>)
    \o fmt_tags(r.others, ks)

\* The orders in which a HashMap with these keys may be iterated.
KeyOrders(map) ==
    LET ks == DOMAIN map
        n  == Cardinality(ks)
    IN  {f \in [1..n -> ks] : \A i, j \in 1..n : f[i] = f[j] => i = j}

----------------------------------------------------------------------------
(* Input lines.  A line is built from tokens joined by single spaces; a    *)
(* token records what it was written as (kind, and the key, value or date  *)
(* it stands for) next to its characters.                                  *)

\* Longest free-form line, in tokens.
MaxTokens == 3

\* Longest title of a canonical line, in words.
MaxTitleWords == 2

Tok(kind, chars, a, b, d) ==
    [kind |-> kind, text |-> chars, a |-> a, b |-> b, d |-> d]

MarkTok == Tok("mark", <<"x">>, <<>>, <<>>, <<>>)

WordTok(w) == Tok("word", w, w, <<>>, <<>>)

PriTok(p) == Tok("pri", <<"(">> \o p \o <<")">>, p, <<>>, <<>>)

ProjTok(p) == Tok("proj", <<"+">> \o p, p, <<>>, <<>>)

CtxTok(c) == Tok("ctx", <<"@">> \o c, c, <<>>, <<>>)

TagTok(k, v) == Tok("tag", k \o <<":">> \o v, k, v, <<>>)

\* A token of the shape YYYY-MM-DD; it need not be a calendar date.
DateTok(y, m, d) ==
    Tok("date", Pad(y, 4) \o <<"-">> \o Pad(m, 2) \o <<"-">> \o Pad(d, 2),
        <<>>, <<>>, <<y, m, d>>)

W_Hello == WordTok(<<"H", "e", "l", "l", "o">>)
W_xray == WordTok(<<"x", "r", "a", "y">>)
P_A == PriTok(<<"A">>)
D_0815 == DateTok(2024, 8, 15)
D_0920 == DateTok(2024, 9, 20)
D_bad == DateTok(2024, 13, 45)
J_hello == ProjTok(<<"h", "e", "l", "l", "o">>)
J_hi == ProjTok(<<"h", "i">>)
C_wow == CtxTok(<<"w", "o", "w">>)
C_home == CtxTok(<<"h", "o", "m", "e">>)
T_due123 == TagTok(<<"d", "u", "e">>, <<"1", "2", "3">>)
T_duedate == TagTok(<<"d", "u", "e">>, <<"2", "0", "2", "1", "-", "0", "8", "-", "1", "5">>)
T_due930 == TagTok(<<"d", "u", "e">>, <<"9", ":", "3", "0">>)
T_some == TagTok(<<"s", "o", "m", "e">>, <<"w", "o", "r", "d">>)
T_glued == TagTok(<<"k">>, <<"v", "2", "0", "2", "4", "-", "0", "1", "-", "0", "1">>)
T_due0816 == TagTok(<<"d", "u", "e">>, <<"2", "0", "2", "1", "-", "0", "8", "-", "1", "6">>)
T_duebad == TagTok(<<"d", "u", "e">>, <<"2", "0", "2", "4", "-", "1", "3", "-", "4", "5">>)

\* The tokens of free-form lines.
Pool ==
    {MarkTok, W_Hello, D_0815, D_0920, D_bad, J_hello, J_hi,
     C_wow, C_home, T_due123, T_due930, T_glued}

FreeLines == UNION {[1..n -> Pool] : n \in 1..MaxTokens}

\* The tokens of the lines given to smart_parse, parse_due and fill.
DuePool ==
    {MarkTok, W_Hello, P_A, D_0815, T_due123, T_duedate, T_due0816, T_duebad}

DueLines == UNION {[1..n -> DuePool] : n \in 1..MaxTokens}

Opt(tok) == {<<>>, <<tok>>}

TitleOpts == UNION {[1..n -> {W_Hello, W_xray}] : n \in 1..MaxTitleWords}

\* The tags of canonical lines, and the lists of them with no key twice.
CanonTags == {T_due123, T_duedate, T_some}

TagOpts ==
    {ts \in UNION {[1..n -> CanonTags] :
                      n \in 0..Cardinality({tok.a : tok \in CanonTags})} :
        \A i, j \in 1..Len(ts) : ts[i].a = ts[j].a => i = j}

\* Lines in the canonical order of the format:
\* [x] [(P)] [D1] [D2] title-words [+proj] [@ctx] [key:value]*
CanonLines ==
    {m \o p \o ds \o ws \o pj \o cx \o ts :
        m \in Opt(MarkTok), p \in Opt(P_A),
        ds \in {<<>>, <<D_0815>>, <<D_0815, D_0920>>},
        ws \in TitleOpts, pj \in Opt(J_hello), cx \in Opt(C_wow),
        ts \in TagOpts}

RECURSIVE Join(_)
\* The characters of the tokens, separated by single spaces.
Join(ts) ==
    IF ts = <<>> THEN <<>>
    ELSE IF Len(ts) = 1 THEN ts[1].text
    ELSE ts[1].text \o <<" ">> \o Join(Tail(ts))

----------------------------------------------------------------------------
(* The caller: it holds a line, and either asks the single-field           *)
(* extractors about Todo::new(line), or parses the line, prints the Todo   *)
(* and parses what was printed.                                            *)

\* The dates the clock may show when smart_parse is called.
Todays == {<<2024, 8, 15>>, <<2026, 11, 2>>}

NoExt ==
    [project |-> None, context |-> None, tags |-> <<>>, priority |-> None,
     title |-> [ok |-> FALSE, val |-> <<>>],
     dates |-> [panic |-> FALSE, creation |-> None, completion |-> None],
     due |-> [panic |-> FALSE, date |-> None]]

NoResult == [status |-> "None", todo |-> new(<<>>)]

\* No TodoFile is in use.
FileOff ==
    /\ fcontent = <<>>
    /\ todos = <<>>
    /\ fpc = "off"
    /\ hist = <<>>
    /\ res = <<>>

Init ==
    /\ toks \in FreeLines \cup CanonLines
    /\ line = Join(toks)
    /\ pc = "new"
    /\ t = new(line)
    /\ status = "None"
    /\ ext = NoExt
    /\ text = <<>>
    /\ rt = new(<<>>)
    /\ rstatus = "None"
    /\ smart = [now |-> None] @@ NoResult
    /\ filled = NoResult
    /\ FileOff

\* let t = Todo::new(line); t.parse_project(), t.parse_context(), ...
Extract ==
    /\ pc = "new"
    /\ ext' = [project  |-> parse_project(t.content),
               context  |-> parse_context(t.content),
               tags     |-> parse_tags(t.content),
               priority |-> parse_priority(t.content),
               title    |-> parse_title(t.content),
               dates    |-> parse_dates(t.content),
               due      |-> parse_due(t.content)]
    /\ pc' = "extracted"
    /\ UNCHANGED <<toks, line, t, status, text, rt, rstatus, smart, filled>>
    /\ UNCHANGED fileVars

\* Todo::parse(line)
Parse ==
    /\ pc = "new"
    /\ \E r \in {parse(line)} :
           /\ status' = r.status
           /\ t' = r.todo
           /\ pc' = CASE r.status = "Ok"      -> "parsed"
                      [] r.status = "NoTitle" -> "failed"
                      [] r.status = "Panic"   -> "panicked"
    /\ UNCHANGED <<toks, line, ext, text, rt, rstatus, smart, filled>>
    /\ UNCHANGED fileVars

\* Todo::smart_parse(line)
SmartParse ==
    /\ pc = "new"
    /\ \E now \in Todays :
           \E r \in {smart_parse(line, now)} :
               smart' = [now |-> Some(now), status |-> r.status, todo |-> r.todo]
    /\ pc' = "smart"
    /\ UNCHANGED <<toks, line, t, status, ext, text, rt, rstatus, filled>>
    /\ UNCHANGED fileVars

\* t.to_string()
Render ==
    /\ pc = "parsed"
    /\ \E ks \in KeyOrders(t.others) : text' = fmt(t, ks)
    /\ pc' = "rendered"
    /\ UNCHANGED <<toks, line, t, status, ext, rt, rstatus, smart, filled>>
    /\ UNCHANGED fileVars

\* Todo::parse(&t.to_string())
Reparse ==
    /\ pc = "rendered"
    /\ \E r \in {parse(text)} :
           /\ rstatus' = r.status
           /\ rt' = r.todo
    /\ pc' = "reparsed"
    /\ UNCHANGED <<toks, line, t, status, ext, text, smart, filled>>
    /\ UNCHANGED fileVars

\* t.fill() on the Todo that Todo::parse(line) returned; `filled` holds the
\* outcome and the Todo after the call, t stays the Todo before it.
Fill ==
    /\ pc = "parsed"
    /\ filled' = fill(t)
    /\ pc' = "filled"
    /\ UNCHANGED <<toks, line, t, status, ext, text, rt, rstatus, smart>>
    /\ UNCHANGED fileVars

Next == Extract \/ Parse \/ Render \/ Reparse

Spec == Init /\ [][Next]_vars

----------------------------------------------------------------------------
(* The caller of smart_parse, parse_due and fill: it holds a line and      *)
(* either asks the extractors, or calls smart_parse, or parses the line    *)
(* and calls fill on the Todo.                                             *)

LineInit ==
    /\ toks \in DueLines \cup CanonLines
    /\ line = Join(toks)
    /\ pc = "new"
    /\ t = new(line)
    /\ status = "None"
    /\ ext = NoExt
    /\ text = <<>>
    /\ rt = new(<<>>)
    /\ rstatus = "None"
    /\ smart = [now |-> None] @@ NoResult
    /\ filled = NoResult
    /\ FileOff

LineNext == Extract \/ Parse \/ SmartParse \/ Fill

LineSpec == LineInit /\ [][LineNext]_vars

----------------------------------------------------------------------------
(* struct TodoFile (src/src/file.rs): a text, and the Todos loaded from    *)
(* its lines.  Indices are positions 1..Len(todos) (index + 1 of the       *)
(* code).                                                                  *)

\* The index of the first "\n" of s, Len(s) + 1 when there is none.
RECURSIVE NewlineAt(_, _)
NewlineAt(s, i) ==
    IF i > Len(s) \/ s[i] = "\n" THEN i ELSE NewlineAt(s, i + 1)

\* A line of str::lines: without its terminator "\n" or "\r\n".
StripCr(l) ==
    IF l # <<>> /\ l[Len(l)] = "\r" THEN SubSeq(l, 1, Len(l) - 1) ELSE l

RECURSIVE LinesFrom(_, _)
LinesFrom(s, e) ==
    IF s = <<>> THEN <<>>
    ELSE <<StripCr(SubSeq(s, 1, e - 1))>>
         \o LinesFrom(SliceFrom(s, e + 1), NewlineAt(SliceFrom(s, e + 1), 1))

\* str::lines: the text split at every "\n"; a final "\n" ends the last
\* line and starts no empty one.
lines(s) == LinesFrom(s, NewlineAt(s, 1))

\* One turn of the loop of load: Ok(todo) is pushed, Err(_) is skipped, and
\* a panic of Todo::parse ends the call.
LoadStep(acc, r) ==
    IF acc.panic \/ r.status = "Panic" THEN [panic |-> TRUE, todos |-> <<>>]
    ELSE IF r.status = "Ok" THEN [panic |-> FALSE, todos |-> Append(acc.todos, r.todo)]
    ELSE acc

RECURSIVE LoadLines(_, _)
LoadLines(ls, acc) ==
    IF ls = <<>> THEN acc
    ELSE LoadLines(Tail(ls), LoadStep(acc, parse(Head(ls))))

\* TodoFile::load (and from_string, which is the constructor followed by
\* load): [panic, todos].
load(s) == LoadLines(lines(s), [panic |-> FALSE, todos |-> <<>>])

\* TodoFile::change_status
change_status(ts, i) == [ts EXCEPT ![i] = toggle_status(@)]

\* TodoFile::remove (Vec::remove)
remove(ts, i) == SubSeq(ts, 1, i - 1) \o SubSeq(ts, i + 1, Len(ts))

\* Ord of NaiveDate: chronological.
DateLess(a, b) ==
    \/ a[1] < b[1]
    \/ a[1] = b[1] /\ a[2] < b[2]
    \/ a[1] = b[1] /\ a[2] = b[2] /\ a[3] < b[3]

\* a.cmp(&b) of Option<NaiveDate> is not Greater: None is less than every
\* Some.
OptLeq(a, b) == a = None \/ (b # None /\ ~DateLess(b[1], a[1]))

RECURSIVE InsertByDate(_, _, _)
\* x put into the sorted list s, behind every element that is not greater.
InsertByDate(x, s, key) ==
    IF s = <<>> THEN <<x>>
    ELSE IF OptLeq(Head(s)[key], x[key])
         THEN <<Head(s)>> \o InsertByDate(x, Tail(s), key)
         ELSE <<x>> \o s

RECURSIVE SortInto(_, _, _)
SortInto(s, acc, key) ==
    IF s = <<>> THEN acc
    ELSE SortInto(Tail(s), InsertByDate(Head(s), acc, key), key)

\* slice::sort_by(|a, b| a.key.cmp(&b.key)): a stable sort, so the result is
\* the one list in key order that keeps equal elements in their order.
sort_by(s, key) == SortInto(s, <<>>, key)

not_done(ts) == sort_by(SelectSeq(ts, LAMBDA e : ~e.completed), "creation")

\* Mutant of done: the completed records sorted by creation date.
done_by_creation(ts) == sort_by(SelectSeq(ts, LAMBDA e : e.completed), "creation")

done(ts) == sort_by(SelectSeq(ts, LAMBDA e : e.completed), "completion")

\* TodoFile::rearrange: the value returned; self.todos is only read.
rearrange(ts) == not_done(ts) \o done(ts)

\* The characters of the model in the order of their bytes.
AsciiOrder ==
    DigitSeq
    \o <<"A", "B", "C", "D", "E", "F", "G", "H", "I", "J", "K", "L", "M",
         "N", "O", "P", "Q", "R", "S", "T", "U", "V", "W", "X", "Y", "Z">>
    \o <<"_">>
    \o <<"a", "b", "c", "d", "e", "f", "g", "h", "i", "j", "k", "l", "m",
         "n", "o", "p", "q", "r", "s", "t", "u", "v", "w", "x", "y", "z">>

CharRank(c) == CHOOSE i \in 1..Len(AsciiOrder) : AsciiOrder[i] = c

RECURSIVE StrLeq(_, _)
\* Ord of String: a <= b, byte by byte.
StrLeq(a, b) ==
    IF a = <<>> THEN TRUE
    ELSE IF b = <<>> THEN FALSE
    ELSE IF a[1] = b[1] THEN StrLeq(Tail(a), Tail(b))
    ELSE CharRank(a[1]) < CharRank(b[1])

RECURSIVE InsertStr(_, _)
InsertStr(x, s) ==
    IF s = <<>> THEN <<x>>
    ELSE IF StrLeq(Head(s), x) THEN <<Head(s)>> \o InsertStr(x, Tail(s))
    ELSE <<x>> \o s

RECURSIVE SortStrs(_, _)
SortStrs(s, acc) ==
    IF s = <<>> THEN acc ELSE SortStrs(Tail(s), InsertStr(Head(s), acc))

\* Vec<String>::sort
sort(s) == SortStrs(s, <<>>)

\* Mutant of dedup: nothing is removed.
dedup_nothing(s) == s

RECURSIVE dedup(_)
\* Vec::dedup: of equal neighbours the first is kept.
dedup(s) ==
    IF Len(s) <= 1 THEN s
    ELSE IF s[1] = s[2] THEN dedup(Tail(s))
    ELSE <<s[1]>> \o dedup(Tail(s))

RECURSIVE Pushed(_, _)
\* The loop of list_projects and list_contexts: the Some values of the
\* extractor `field` over the records, in order.
Pushed(ts, field) ==
    IF ts = <<>> THEN <<>>
    ELSE (IF field = "project" THEN parse_project(Head(ts).content)
          ELSE parse_context(Head(ts).content))
         \o Pushed(Tail(ts), field)

\* TodoFile::list_projects
list_projects(ts) == dedup(sort(Pushed(ts, "project")))

\* TodoFile::list_contexts
list_contexts(ts) == dedup(sort(Pushed(ts, "context")))

RECURSIVE DueFilter(_, _, _)
\* The filter of due_on over the records still to visit: [panic, todos].
DueFilter(ts, date, acc) ==
    IF ts = <<>> THEN [panic |-> FALSE, todos |-> acc]
    ELSE IF parse_due(Head(ts).content).panic THEN [panic |-> TRUE, todos |-> <<>>]
    ELSE DueFilter(Tail(ts), date,
                   IF parse_due(Head(ts).content).date = Some(date)
                   THEN Append(acc, Head(ts))
                   ELSE acc)

\* TodoFile::due_on
due_on(ts, date) == DueFilter(ts, date, <<>>)

----------------------------------------------------------------------------
(* The texts a TodoFile is loaded from, and its caller: from_string, then  *)
(* change_status and remove on valid indices, and the queries.             *)

\* Most lines of a text.
MaxLines == 2

\* Most change_status and remove calls on a collection.
MaxOps == 2

FileLines ==
    {<<MarkTok, P_A, D_0815, D_0920, W_Hello, J_hello, C_wow, T_duedate>>,
     <<MarkTok, D_0920, D_0815, W_Hello, W_xray, J_hi>>,
     <<D_0920, W_Hello, J_hi, C_wow, T_due0816>>,
     <<D_0815, W_Hello, W_xray, J_hello, C_home>>,
     <<W_Hello, T_duebad>>,
     <<W_Hello, W_xray, T_duedate>>,
     <<J_hello, C_wow>>,
     <<W_Hello, D_bad>>}

RECURSIVE TextOf(_)
\* The text of the lines, each ended by "\n".
TextOf(ls) ==
    IF ls = <<>> THEN <<>> ELSE Join(Head(ls)) \o <<"\n">> \o TextOf(Tail(ls))

Texts == {TextOf(ls) : ls \in UNION {[1..n -> FileLines] : n \in 0..MaxLines}}

\* The dates asked of due_on.
DueDates == {<<2021, 8, 15>>, <<2021, 8, 16>>}

\* No single line is being parsed.
ParserOff ==
    /\ toks = <<>>
    /\ line = <<>>
    /\ pc = "off"
    /\ t = new(<<>>)
    /\ status = "None"
    /\ ext = NoExt
    /\ text = <<>>
    /\ rt = new(<<>>)
    /\ rstatus = "None"
    /\ smart = [now |-> None] @@ NoResult
    /\ filled = NoResult

\* TodoFile { path, todos: Vec::new(), content } of from_string
FileInit ==
    /\ fcontent \in Texts
    /\ todos = <<>>
    /\ fpc = "created"
    /\ hist = <<>>
    /\ res = <<>>
    /\ ParserOff

\* t.load()
Load ==
    /\ fpc = "created"
    /\ \E r \in {load(fcontent)} :
           /\ todos' = r.todos
           /\ fpc' = IF r.panic THEN "panicked" ELSE "loaded"
    /\ UNCHANGED <<fcontent, hist, res>>
    /\ UNCHANGED parserVars

\* t.change_status(i - 1)
ChangeStatus ==
    /\ fpc = "loaded"
    /\ Len(hist) < MaxOps
    /\ \E i \in 1..Len(todos) :
           /\ todos' = change_status(todos, i)
           /\ hist' = Append(hist, [op |-> "change_status", index |-> i,
                                    before |-> todos])
    /\ UNCHANGED <<fcontent, fpc, res>>
    /\ UNCHANGED parserVars

\* t.remove(i - 1)
Remove ==
    /\ fpc = "loaded"
    /\ Len(hist) < MaxOps
    /\ \E i \in 1..Len(todos) :
           /\ todos' = remove(todos, i)
           /\ hist' = Append(hist, [op |-> "remove", index |-> i,
                                    before |-> todos])
    /\ UNCHANGED <<fcontent, fpc, res>>
    /\ UNCHANGED parserVars

\* t.list_projects() and t.list_contexts()
List ==
    /\ fpc = "loaded"
    /\ res' = [projects |-> list_projects(todos),
               contexts |-> list_contexts(todos)]
    /\ fpc' = "listed"
    /\ UNCHANGED <<fcontent, todos, hist>>
    /\ UNCHANGED parserVars

\* t.rearrange(): it takes &mut self, so the todos before the call are
\* kept in hist.
Rearrange ==
    /\ fpc = "loaded"
    /\ res' = rearrange(todos)
    /\ todos' = todos
    /\ hist' = Append(hist, [op |-> "rearrange", index |-> 0, before |-> todos])
    /\ fpc' = "rearranged"
    /\ UNCHANGED fcontent
    /\ UNCHANGED parserVars

\* t.due_on(date)
DueOn ==
    /\ fpc = "loaded"
    /\ \E date \in DueDates :
           res' = [date |-> date] @@ due_on(todos, date)
    /\ fpc' = "due"
    /\ UNCHANGED <<fcontent, todos, hist>>
    /\ UNCHANGED parserVars

FileNext == Load \/ ChangeStatus \/ Remove \/ List \/ Rearrange \/ DueOn

FileSpec == FileInit /\ [][FileNext]_vars

----------------------------------------------------------------------------
(* What the input line was written as, read off its tokens.                *)

OfKind(k) == SelectSeq(toks, LAMBDA x : x.kind = k)

Count(k) == Len(OfKind(k))

FirstOf(k) == IF OfKind(k) = <<>> THEN None ELSE Some(OfKind(k)[1].a)

Rank(tok) ==
    CASE tok.kind = "mark" -> 1
      [] tok.kind = "pri"  -> 2
      [] tok.kind = "date" -> 3
      [] tok.kind = "word" -> 4
      [] tok.kind = "proj" -> 5
      [] tok.kind = "ctx"  -> 6
      [] tok.kind = "tag"  -> 7

\* The date token writes a calendar date.
RealDate(tok) ==
    /\ tok.d[2] \in 1..12
    /\ tok.d[3] \in 1..DaysIn(tok.d[1], tok.d[2])

\* The value of the tag is a plain word or a date.
PlainTag(tok) ==
    \/ \A i \in 1..Len(tok.b) : IsWord(tok.b[i])
    \/ Len(tok.b) = 10 /\ DateShapeAt(tok.b, 1)

\* The line is in canonical field order:
\* [x] [(P)] [D1] [D2] title-words [+proj] [@ctx] [key:value]*
Canonical ==
    /\ \A i \in 1..(Len(toks) - 1) : Rank(toks[i]) <= Rank(toks[i + 1])
    /\ Count("mark") <= 1
    /\ Count("pri") <= 1
    /\ Count("date") <= 2
    /\ Count("word") >= 1
    /\ Count("proj") <= 1
    /\ Count("ctx") <= 1
    /\ \A i \in 1..Len(toks) :
          /\ toks[i].kind = "date" => RealDate(toks[i])
          /\ toks[i].kind = "tag" => PlainTag(toks[i])
    /\ \A i, j \in 1..Len(toks) :
          (toks[i].kind = "tag" /\ toks[j].kind = "tag" /\ toks[i].a = toks[j].a)
              => i = j

\* The date the n-th date token writes, when there is one.
DateOf(n) == IF Count("date") >= n THEN Some(OfKind("date")[n].d) ELSE None

\* The tags the line writes: every key, with the value of its last token.
TagsWritten ==
    LET ts == OfKind("tag")
        last(k) == CHOOSE i \in 1..Len(ts) :
                       ts[i].a = k /\ \A j \in (i + 1)..Len(ts) : ts[j].a # k
    IN  [k \in {ts[i].a : i \in 1..Len(ts)} |-> ts[last(k)].b]

\* The line begins with the completion marker: 'x' followed by whitespace.
BeginsWithMarker(l) == Len(l) >= 2 /\ l[1] = "x" /\ IsSpace(l[2])

SameFields(a, b) ==
    /\ a.completed = b.completed
    /\ a.priority = b.priority
    /\ a.creation = b.creation
    /\ a.completion = b.completion
    /\ a.title = b.title
    /\ a.project = b.project
    /\ a.context = b.context
    /\ a.others = b.others

RECURSIVE Words(_)
\* The words of a text: its maximal runs of characters that are not spaces.
Words(s) ==
    IF s = <<>> THEN <<>>
    ELSE IF IsSpace(s[1]) THEN Words(Tail(s))
    ELSE <<SubSeq(s, 1, NonSpaceRunEnd(s, 1))>>
         \o Words(SliceFrom(s, NonSpaceRunEnd(s, 1) + 1))

\* The index of the first word w among ws, 0 when there is none.
IndexOf(ws, w) ==
    IF \E i \in 1..Len(ws) : ws[i] = w
    THEN CHOOSE i \in 1..Len(ws) : ws[i] = w /\ \A j \in 1..(i - 1) : ws[j] # w
    ELSE 0

----------------------------------------------------------------------------
(* The claims.                                                             *)

\* C1: round trip.  For a line in canonical field order on which parse
\* succeeds, parsing the rendered record succeeds and yields the same
\* completed, priority, creation, completion, title, project, context and
\* tags as the first parse.
C1_RoundTrip ==
    (pc = "reparsed" /\ Canonical) => (rstatus = "Ok" /\ SameFields(rt, t))

\* C2: on a successful parse, completed is true iff the raw line begins with
\* 'x' followed by whitespace, and a line that does not begin with the marker
\* loses no character.
C2_CompletedIffMarker ==
    pc = "parsed" =>
        /\ t.completed <=> BeginsWithMarker(line)
        /\ ~BeginsWithMarker(line) => t.content = line

\* C3: on a line in canonical order parse succeeds and returns each part as
\* written: completed iff the marker is present, the priority, the first date
\* as creation, the second as completion, the title words joined by single
\* spaces, the project, the context and exactly the tags; absent parts are
\* absent.
C3_CanonicalFields ==
    (pc \in {"parsed", "failed", "panicked"} /\ Canonical) =>
        /\ status = "Ok"
        /\ t.completed = (Count("mark") = 1)
        /\ t.priority = FirstOf("pri")
        /\ t.creation = DateOf(1)
        /\ t.completion = DateOf(2)
        /\ t.title = Join(OfKind("word"))
        /\ t.project = FirstOf("proj")
        /\ t.context = FirstOf("ctx")
        /\ t.others = TagsWritten

\* C4: parse fails with NoTitle exactly when nothing but whitespace remains
\* of the line after its completion marker and every recognised token are
\* removed; a returned title is not empty and has no whitespace at its ends.
C4_NoTitleExactly ==
    pc \in {"parsed", "failed", "panicked"} =>
        /\ status = "NoTitle" <=> trim(strip_tokens(content_of(line))) = <<>>
        /\ status = "Ok" => (t.title # <<>> /\ trim(t.title) = t.title)

\* C5: parse ends with a record or an error value on every line; it never
\* aborts.
C5_ParseReturns == status \in {"None", "Ok", "NoTitle"}

\* C6: parse_project, and the project of a parsed record, is the word of the
\* leftmost +word of the line, however many follow, and None when there is
\* none; likewise parse_context and @word.
C6_FirstProjectContext ==
    /\ pc = "extracted" =>
          (ext.project = FirstOf("proj") /\ ext.context = FirstOf("ctx"))
    /\ pc = "parsed" =>
          (t.project = FirstOf("proj") /\ t.context = FirstOf("ctx"))

\* C6 witness: a parsed line with two different projects.
C6_Witness ==
    /\ pc = "parsed"
    /\ Count("proj") >= 2
    /\ OfKind("proj")[1] # OfKind("proj")[2]
    /\ t.project = Some(OfKind("proj")[1].a)

\* C7: parse_tags has exactly the keys of the key:value tokens of the line,
\* each token split at its first ':', and for a key that occurs in several
\* tokens the value of the last.
C7_TagsLastWins == pc = "extracted" => ext.tags = TagsWritten

\* C7 witness: two tokens with the same key and different values, one of
\* them with a ':' in its value.
C7_Witness ==
    /\ pc = "extracted"
    /\ \E i, j \in 1..Len(toks) :
          /\ i < j
          /\ toks[i].kind = "tag" /\ toks[j].kind = "tag"
          /\ toks[i].a = toks[j].a /\ toks[i].b # toks[j].b
          /\ \E k \in 1..Len(toks[j].b) : toks[j].b[k] = ":"
          /\ ext.tags[toks[j].a] = toks[j].b

\* C8: parse_dates returns the first date token of the line as creation and
\* the second as completion; later dates are ignored and no date inside a
\* key:value token is returned.  (Lines whose date-shaped tokens are all
\* calendar dates.)
C8_DatesOutsideTags ==
    (pc = "extracted" /\ \A i \in 1..Count("date") : RealDate(OfKind("date")[i]))
        => /\ ~ext.dates.panic
           /\ ext.dates.creation = DateOf(1)
           /\ ext.dates.completion = DateOf(2)

\* C9: the title of a parsed record is its content without the recognised
\* tokens, trimmed; no other character of the content is dropped.
C9_TitleIsResidue ==
    pc = "parsed" => t.title = trim(strip_tokens(t.content))

\* The words Display is to write for the record r, its tags in the order ks.
RenderedWords(r, ks) ==
    (IF r.completed THEN <<<<"x">>>> ELSE <<>>)
    \o (IF r.priority # None THEN <<<<"(">> \o r.priority[1] \o <<")">>>> ELSE <<>>)
    \o (IF r.completion # None THEN <<fmt_date(r.completion[1])>> ELSE <<>>)
    \o (IF r.creation # None THEN <<fmt_date(r.creation[1])>> ELSE <<>>)
    \o Words(r.title)
    \o (IF r.project # None THEN <<<<"+">> \o r.project[1]>> ELSE <<>>)
    \o (IF r.context # None THEN <<<<"@">> \o r.context[1]>> ELSE <<>>)
    \o [i \in 1..Len(ks) |-> ks[i] \o <<":">> \o r.others[ks[i]]]

\* C10: the rendered text consists of the present fields in the order
\* x, (P), completion date, creation date, title, +project, @context, tags,
\* and nothing else; the second date of a canonical line (its completion) is
\* written before the first (its creation).
C10_RenderOrder ==
    pc = "rendered" =>
        /\ \E ks \in KeyOrders(t.others) : Words(text) = RenderedWords(t, ks)
        /\ (Canonical /\ Count("date") = 2
                      /\ OfKind("date")[1] # OfKind("date")[2]) =>
              /\ IndexOf(Words(text), OfKind("date")[2].text) > 0
              /\ IndexOf(Words(text), OfKind("date")[2].text)
                     < IndexOf(Words(text), OfKind("date")[1].text)

\* C10 witness: a rendered record with every field present and two tags.
C10_Witness ==
    /\ pc = "rendered"
    /\ t.completed
    /\ t.priority # None /\ t.project # None /\ t.context # None
    /\ t.creation # None /\ t.completion # None
    /\ t.creation # t.completion
    /\ Cardinality(DOMAIN t.others) = 2

\* C11: the rendered line of a parsed record (its title is not empty) has no
\* whitespace at its beginning or end, and no two whitespace characters in a
\* row: its tokens are separated by exactly one space.
C11_RenderTrimmed ==
    pc = "rendered" =>
        /\ text # <<>>
        /\ ~IsSpace(text[1])
        /\ ~IsSpace(text[Len(text)])
        /\ \A i \in 1..(Len(text) - 1) : ~(IsSpace(text[i]) /\ IsSpace(text[i + 1]))

\* C13: smart_parse(line) ends as parse(line) does (same error, no relaxed
\* NoTitle); on success it returns the record of parse except that an absent
\* creation date is the current date and an absent priority is "D"; the
\* priority and the first date written in a canonical line are what the
\* record holds.
C13_SmartParseDefaults ==
    pc = "smart" =>
        \A p \in {parse(line)} :
            /\ smart.status = p.status
            /\ p.status = "Ok" =>
                  /\ smart.todo.title = p.todo.title
                  /\ smart.todo.completed = p.todo.completed
                  /\ smart.todo.completion = p.todo.completion
                  /\ smart.todo.project = p.todo.project
                  /\ smart.todo.context = p.todo.context
                  /\ smart.todo.others = p.todo.others
                  /\ smart.todo.content = p.todo.content
                  /\ smart.todo.creation =
                        (IF p.todo.creation = None THEN smart.now
                         ELSE p.todo.creation)
                  /\ smart.todo.priority =
                        (IF p.todo.priority = None THEN Some(<<"D">>)
                         ELSE p.todo.priority)
                  /\ (Canonical /\ Count("pri") >= 1) =>
                        smart.todo.priority = FirstOf("pri")
                  /\ (Canonical /\ Count("date") >= 1) =>
                        smart.todo.creation = DateOf(1)

\* C13 witness: smart_parse succeeded on a line that writes a priority and a
\* date, on a day that is not that date.
C13_Witness ==
    /\ pc = "smart"
    /\ smart.status = "Ok"
    /\ Canonical
    /\ Count("pri") >= 1 /\ Count("date") >= 1
    /\ smart.now # DateOf(1)
    /\ smart.todo.priority = Some(<<"A">>)
    /\ smart.todo.creation = DateOf(1)

\* C13 witness of the defaults: smart_parse succeeded on a line without
\* priority and date, and failed with NoTitle on another.
C13_DefaultsWitness ==
    /\ pc = "smart"
    /\ smart.status = "Ok"
    /\ Count("pri") = 0 /\ Count("date") = 0
    /\ smart.todo.priority = Some(<<"D">>)
    /\ smart.todo.creation = smart.now

\* The due:YYYY-MM-DD tokens of the line, and the date such a token writes.
DueToks ==
    SelectSeq(toks, LAMBDA x : /\ x.kind = "tag"
                               /\ x.a = <<"d", "u", "e">>
                               /\ Len(x.b) = 10
                               /\ DateShapeAt(x.b, 1))

DueDateOf(tok) ==
    <<NumOf(SubSeq(tok.b, 1, 4)), NumOf(SubSeq(tok.b, 6, 7)),
      NumOf(SubSeq(tok.b, 9, 10))>>

\* C14: parse_due returns: Some(d), d the date of the leftmost
\* due:YYYY-MM-DD token of the line, and None when the line has no due:
\* token with a date-shaped value.
C14_ParseDue ==
    pc = "extracted" =>
        /\ ~ext.due.panic
        /\ ext.due.date =
              (IF DueToks = <<>> THEN None ELSE Some(DueDateOf(DueToks[1])))

\* C18: fill on a record that parse returned succeeds and leaves every field
\* of it as it was.
C18_FillIdempotent ==
    pc = "filled" => (filled.status = "Ok" /\ filled.todo = t)

\* The todos the k-th operation of hist left behind.
After(k) == IF k = Len(hist) THEN todos ELSE hist[k + 1].before

\* C12: change_status on a valid index flips the completed flag of that
\* record and nothing else: every other field of it and every other record
\* of the collection stay as they were, and a second change_status on the
\* same index restores the collection.
C12_ToggleFlipsOnly ==
    \A k \in 1..Len(hist) :
        hist[k].op = "change_status" =>
            /\ Len(After(k)) = Len(hist[k].before)
            /\ \A j \in 1..Len(hist[k].before) :
                  IF j = hist[k].index
                  THEN /\ After(k)[j].completed = ~hist[k].before[j].completed
                       /\ [After(k)[j] EXCEPT !.completed = ~@] = hist[k].before[j]
                  ELSE After(k)[j] = hist[k].before[j]
            /\ (/\ k < Len(hist)
                /\ hist[k + 1].op = "change_status"
                /\ hist[k + 1].index = hist[k].index) =>
                  After(k + 1) = hist[k].before

\* C12 witness: change_status applied twice to a completed record of a
\* collection of several records.
C12_Witness ==
    /\ Len(hist) = 2
    /\ hist[1].op = "change_status" /\ hist[2].op = "change_status"
    /\ hist[1].index = hist[2].index
    /\ Len(todos) >= 2
    /\ hist[1].before[hist[1].index].completed
    /\ ~hist[2].before[hist[1].index].completed
    /\ todos = hist[1].before

\* The records of the lines on which Todo::parse succeeds, in order.
RECURSIVE ParsedOk(_)
ParsedOk(ls) ==
    IF ls = <<>> THEN <<>>
    ELSE (IF parse(Head(ls)).status = "Ok" THEN <<parse(Head(ls)).todo>> ELSE <<>>)
         \o ParsedOk(Tail(ls))

\* C15: loading a text never fails, and the todos it leaves are the records
\* of the lines that parse, in the order of the lines, never more than there
\* are lines; a line that cannot be parsed only drops out.
C15_LoadSkips ==
    fpc # "created" =>
        /\ fpc # "panicked"
        /\ (fpc = "loaded" /\ hist = <<>>) =>
              /\ todos = ParsedOk(lines(fcontent))
              /\ Len(todos) <= Len(lines(fcontent))

\* The values of the field f that the records hold.
Held(ts, f) == {ts[i][f][1] : i \in {j \in 1..Len(ts) : ts[j][f] # None}}

\* The list is sorted and has nothing twice.
StrictlyAscending(s) ==
    \A i \in 1..(Len(s) - 1) : StrLeq(s[i], s[i + 1]) /\ s[i] # s[i + 1]

\* C16: after loading and any removes and change_statuses, list_projects is
\* strictly ascending and holds exactly the projects of the records of the
\* collection; list_contexts likewise.
C16_ListsSortedDistinct ==
    fpc = "listed" =>
        /\ StrictlyAscending(res.projects)
        /\ {res.projects[i] : i \in 1..Len(res.projects)} = Held(todos, "project")
        /\ StrictlyAscending(res.contexts)
        /\ {res.contexts[i] : i \in 1..Len(res.contexts)} = Held(todos, "context")

\* C16 witness: after a change_status, two projects listed in the order
\* opposite to that of their records.
C16_Witness ==
    /\ fpc = "listed"
    /\ \E k \in 1..Len(hist) : hist[k].op = "change_status"
    /\ Len(res.projects) = 2
    /\ Len(todos) = 2
    /\ todos[1].project = Some(res.projects[2])
    /\ todos[2].project = Some(res.projects[1])

\* The one-to-one assignments of the positions of s to themselves.
Perms(n) == {f \in [1..n -> 1..n] : \A i, j \in 1..n : f[i] = f[j] => i = j}

\* C17: rearrange returns the records of the collection, each once: first
\* those not completed, by creation date (none first, equal dates in their
\* order in the collection), then the completed, by completion date; the
\* todos of the collection are as before the call.
C17_RearrangeOrder ==
    fpc = "rearranged" =>
        /\ todos = hist[Len(hist)].before
        /\ Len(res) = Len(todos)
        /\ \E f \in Perms(Len(todos)) :
              /\ \A k \in 1..Len(res) : res[k] = todos[f[k]]
              /\ \A k, l \in 1..Len(res) :
                    k < l =>
                        /\ res[k].completed => res[l].completed
                        /\ (~res[k].completed /\ ~res[l].completed) =>
                              /\ OptLeq(res[k].creation, res[l].creation)
                              /\ res[k].creation = res[l].creation => f[k] < f[l]
                        /\ (res[k].completed /\ res[l].completed) =>
                              OptLeq(res[k].completion, res[l].completion)

\* C17 witness: two completed records whose completion dates are in the
\* opposite order to their creation dates and to their places in the
\* collection.
C17_Witness ==
    /\ fpc = "rearranged"
    /\ Len(todos) >= 2
    /\ todos[1].completed /\ todos[2].completed
    /\ todos[1].completion # None /\ todos[2].completion # None
    /\ DateLess(todos[2].completion[1], todos[1].completion[1])
    /\ DateLess(todos[1].creation[1], todos[2].creation[1])
    /\ res[1] = todos[2]

====
